---------------------------- MODULE Spec2Model ----------------------------
(***************************************************************************)
(* Model of examples/self_test/insight_agent.py: the SimpleHooks tool      *)
(* error tracker, create_agent_and_servers (startup connection of the MCP  *)
(* tool servers) and run_chat (the chat loop and the shutdown cleanup).    *)
(*                                                                         *)
(* Python strings are sequences of one-character strings, so that          *)
(* str.strip(), str.lower(), slicing and the `in` operator are computed    *)
(* the way the interpreter computes them.                                  *)
(***************************************************************************)
EXTENDS Integers, Sequences, FiniteSets, TLC

(***************************************************************************)
(* Bounds of the model.                                                    *)
(***************************************************************************)
\* user turns started over one run of the program
MaxTurns == 2
\* tool calls the model-runner performs over one run of the program
MaxToolCalls == 3
\* error records already in tool_errors where the loop is entered directly
MaxHistory == 4
\* successful turns already in the session where the loop is entered directly
MaxPriorTurns == 3

(***************************************************************************)
(* Constants of the program.                                               *)
(***************************************************************************)
\* result_str[:500] kept in an error record
ErrorRecordLen == 500
\* err['error'][:200] quoted in the system note
NoteErrorLen == 200
\* last_tool_error['error'][:300] shown in the warning
WarningLen == 300
\* hooks.tool_errors[-3:]
RecentErrors == 3
\* items[-5:] of "debug session"
DebugItems == 5
\* str(item)[:100] of "debug session"
DebugItemLen == 100
\* max_turns=10 handed to Runner.run
RunnerMaxTurns == 10

(***************************************************************************)
(* Strings.                                                                *)
(***************************************************************************)
UpperCase ==
  <<"A","B","C","D","E","F","G","H","I","J","K","L","M","N","O","P","Q","R","S","T","U",
    "V","W","X","Y","Z">>
LowerCase ==
  <<"a","b","c","d","e","f","g","h","i","j","k","l","m","n","o","p","q","r","s","t","u",
    "v","w","x","y","z">>
Whitespace == {" ", "\t", "\n", "\r"}

\* one character of str.lower()
LowerChar(c) ==
  IF \E i \in 1..26 : UpperCase[i] = c
  THEN LowerCase[CHOOSE i \in 1..26 : UpperCase[i] = c]
  ELSE c

\* s.lower()
Lower(s) == [i \in 1..Len(s) |-> LowerChar(s[i])]

\* needle in s
Contains(needle, s) ==
  \E i \in 0..(Len(s) - Len(needle)) :
    \A j \in 1..Len(needle) : s[i + j] = needle[j]

\* s[:n]
Take(s, n) == SubSeq(s, 1, IF n < Len(s) THEN n ELSE Len(s))

\* s[-n:]
LastN(s, n) == SubSeq(s, IF Len(s) > n THEN Len(s) - n + 1 ELSE 1, Len(s))

\* s.strip()
Strip(s) ==
  LET keep == {i \in 1..Len(s) : s[i] \notin Whitespace}
  IN  IF keep = {} THEN <<>>
      ELSE LET lo == CHOOSE i \in keep : \A j \in keep : i <= j
               hi == CHOOSE i \in keep : \A j \in keep : j <= i
           IN  SubSeq(s, lo, hi)

\* str(i) of a list position 1..9
DigitOf(i) == << <<"1","2","3","4","5","6","7","8","9">>[i] >>

\* str(i) of a natural number
RECURSIVE IntStr(_)
IntStr(i) ==
  IF i < 10 THEN << <<"0","1","2","3","4","5","6","7","8","9">>[i + 1] >>
  ELSE IntStr(i \div 10) \o IntStr(i % 10)

NeedleError ==
  <<"e","r","r","o","r">>
NeedleDbConfig ==
  <<"d","a","t","a","b","a","s","e"," ","c","o","n","f","i","g","u","r","a","t","i","o",
    "n"," ","n","o","t"," ","s","e","t">>
NeedleToolCall ==
  <<"t","o","o","l"," ","c","a","l","l">>
McpMarker ==
  <<"M","C","P"," ","e","r","r","o","r">>
CmdDebug ==
  <<"d","e","b","u","g"," ","s","e","s","s","i","o","n">>
CmdQuit ==
  <<"q","u","i","t">>
CmdExit ==
  <<"e","x","i","t">>
CmdBye ==
  <<"b","y","e">>
NoteHeader ==
  <<"\n","\n","[","S","y","s","t","e","m"," ","N","o","t","e",":"," ","R","e","c","e",
    "n","t"," ","t","o","o","l"," ","e","r","r","o","r","s"," ","f","o","r"," ","c","o",
    "n","t","e","x","t",":","\n">>
NoteTool ==
  <<"."," ","T","o","o","l"," ","'">>
NoteError ==
  <<"'"," ","e","r","r","o","r",":"," ">>
NoteEllipsis ==
  <<".",".",".","\n">>
NoteFooter ==
  <<"]">>


(***************************************************************************)
(* Values of the collaborators: tool names, tool results, runner failures, *)
(* final outputs and the lines the user types.                             *)
(***************************************************************************)
ToolQuery ==
  <<"q","u","e","r","y">>
ToolSearch ==
  <<"w","e","b","_","s","e","a","r","c","h">>
StrNone ==
  <<"N","o","n","e">>
ResRows ==
  <<"3"," ","r","o","w","s">>
ResDbUpper ==
  <<"D","a","t","a","b","a","s","e"," ","C","o","n","f","i","g","u","r","a","t","i","o",
    "n"," ","N","o","t"," ","S","e","t">>
ResNoErrors ==
  <<"N","o"," ","E","R","R","O","R","S"," ","f","o","u","n","d">>
ResNearMiss ==
  <<"e","r","r","o"," ","r">>
ExcTimeout ==
  <<"t","i","m","e","o","u","t">>
ExcMcp ==
  <<"M","C","P"," ","e","r","r","o","r"," ","-","3","2","0","0","0">>
ExcMcpLower ==
  <<"m","c","p"," ","e","r","r","o","r">>
OutAnswer ==
  <<"d","o","n","e">>
InEmpty ==
  <<>>
InBlank ==
  <<" "," ">>
InQuit ==
  <<" ","q","u","i","t">>
InExit ==
  <<"E","X","I","T">>
InBye ==
  <<"B","y","e"," ">>
InDebug ==
  <<"D","e","b","u","g"," ","S","e","s","s","i","o","n"," ">>
InHello ==
  <<"h","i">>
InAskError ==
  <<"A","n","y"," ","E","R","R","O","R","?">>
InAskToolCall ==
  <<"l","a","s","t"," ","T","o","o","l"," ","C","a","l","l">>

\* Python's None
None == [none |-> TRUE]

\* the lines input() can return
Inputs ==
  {InEmpty, InBlank, InQuit, InExit, InBye, InDebug, InHello, InAskError, InAskToolCall}

\* a tool result is a string or None; str(result) renders it
TextResult(t) == [type |-> "str", text |-> t]
NoneResult == [type |-> "NoneType"]
Str(result) == IF result.type = "str" THEN result.text ELSE StrNone

\* the tool calls the model-runner may perform: the tool and what it returns
\* (all results are shorter than the truncation lengths of the program)
ToolCalls ==
  {[tool |-> ToolQuery, result |-> TextResult(ResRows)],
   [tool |-> ToolQuery, result |-> TextResult(ResDbUpper)],
   [tool |-> ToolQuery, result |-> NoneResult],
   [tool |-> ToolSearch, result |-> TextResult(ResNearMiss)],
   [tool |-> ToolSearch, result |-> TextResult(ResNoErrors)]}

\* the texts of the failures Runner.run may raise
RunnerFailures == {ExcTimeout, ExcMcp, ExcMcpLower}

\* the MCP servers create_agent_and_servers connects, in the order of the code
ServerSpecs == <<"graphiti", "postgres">>
Servers == {ServerSpecs[k] : k \in 1..Len(ServerSpecs)}

VARIABLES
  pc,               \* position of the program
  env_api_key,      \* whether os.getenv("OPENAI_API_KEY") is set and non-empty
  next_spec,        \* index in ServerSpecs of the connection block to run
  connect_attempts, \* connect() calls per server
  connected,        \* servers whose connect() returned
  mcp_servers,      \* the list mcp_servers
  agent,            \* the Agent, None before it is created
  hooks,            \* the SimpleHooks object: last_tool_error, tool_errors;
                    \* nothing reads it before run_chat creates it
  session,          \* the items of the SQLiteSession, created empty
  runner_call,      \* arguments of the Runner.run call in flight, None otherwise
  tool_events,      \* tool calls the runner performed in the call in flight
  printed,          \* what the latest iteration of the loop printed
  next_cleanup,     \* index in mcp_servers of the finally block's loop
  cleanup_calls,    \* cleanup() calls per server
  cleanup_warned,   \* servers whose cleanup failure was logged
  exc,              \* the exception propagating out of run_chat, None if none
  exit_path,        \* how the chat loop was left
  interrupts,       \* where an interrupt signal was delivered
  turns,            \* user turns started
  calls             \* tool calls performed

vars ==
  <<pc, env_api_key, next_spec, connect_attempts, connected, mcp_servers, agent, hooks,
    session,
    runner_call, tool_events, printed, next_cleanup, cleanup_calls, cleanup_warned,
    exc, exit_path, interrupts, turns, calls>>

startup_vars ==
  <<env_api_key, next_spec, connect_attempts, connected, mcp_servers, agent>>
cleanup_vars == <<next_cleanup, cleanup_calls, cleanup_warned>>

(***************************************************************************)
(* SimpleHooks.                                                            *)
(***************************************************************************)
\* SimpleHooks.__init__
NewHooks == [last_tool_error |-> None, tool_errors |-> <<>>]

\* IsToolError without the lower() calls
IsToolError_CaseSensitive(result_str) ==
  \/ Contains(NeedleError, result_str)
  \/ Contains(NeedleDbConfig, result_str)

\* the condition of on_tool_end on result_str
IsToolError(result_str) ==
  \/ Contains(NeedleError, Lower(result_str))
  \/ Contains(NeedleDbConfig, Lower(result_str))

\* error_info of on_tool_end
ErrorInfo(tool, result_str) ==
  [tool |-> tool, error |-> Take(result_str, ErrorRecordLen), timestamp |-> "just now"]

\* OnToolEnd keeping the first error of the turn in last_tool_error
OnToolEnd_FirstWins(h, tool, result) ==
  LET result_str == Str(result)
  IN  IF IsToolError(result_str)
      THEN [last_tool_error |->
              IF h.last_tool_error = None
              THEN ErrorInfo(tool, result_str)
              ELSE h.last_tool_error,
            tool_errors |-> Append(h.tool_errors, ErrorInfo(tool, result_str))]
      ELSE h

\* OnToolEnd clearing last_tool_error when a result is no error
OnToolEnd_SuccessClears(h, tool, result) ==
  LET result_str == Str(result)
  IN  IF IsToolError(result_str)
      THEN [last_tool_error |-> ErrorInfo(tool, result_str),
            tool_errors |-> Append(h.tool_errors, ErrorInfo(tool, result_str))]
      ELSE [h EXCEPT !.last_tool_error = None]

\* SimpleHooks.on_tool_end(context, agent, tool, result) on the hooks object h
OnToolEnd(h, tool, result) ==
  LET result_str == Str(result)
  IN  IF IsToolError(result_str)
      THEN [last_tool_error |-> ErrorInfo(tool, result_str),
            tool_errors |-> Append(h.tool_errors, ErrorInfo(tool, result_str))]
      ELSE h

\* ResetTurn restoring the slot from the history instead of clearing it
ResetTurn_LatestRecord(h) ==
  [h EXCEPT !.last_tool_error =
     IF h.tool_errors = <<>> THEN None ELSE h.tool_errors[Len(h.tool_errors)]]

\* ResetTurn creating a fresh tracker: the history is lost with the slot
ResetTurn_ClearsHistory(h) == [last_tool_error |-> None, tool_errors |-> <<>>]

\* ResetTurn with the assignment left out
ResetTurn_Noop(h) == h

\* hooks.last_tool_error = None
ResetTurn(h) == [h EXCEPT !.last_tool_error = None]

\* truth value of hooks.last_tool_error: None is false, a non-empty dict is true
Truthy(x) == x # None

Init ==
  /\ pc = "start"
  /\ env_api_key \in BOOLEAN
  /\ next_spec = 1
  /\ connect_attempts = [s \in Servers |-> 0]
  /\ connected = {}
  /\ mcp_servers = <<>>
  /\ agent = None
  /\ hooks = NewHooks
  /\ session = <<>>
  /\ runner_call = None
  /\ tool_events = <<>>
  /\ printed = <<>>
  /\ next_cleanup = 1
  /\ cleanup_calls = [s \in Servers |-> 0]
  /\ cleanup_warned = {}
  /\ exc = None
  /\ exit_path = "none"
  /\ interrupts = {}
  /\ turns = 0
  /\ calls = 0

\* an exception object: its class and str(e)
Exception(class, text) == [class |-> class, text |-> text]

(***************************************************************************)
(* create_agent_and_servers, called first by run_chat and outside its try. *)
(***************************************************************************)
\* the API key check: a missing key raises ValueError out of run_chat
CheckApiKey ==
  /\ pc = "start"
  /\ IF env_api_key
     THEN /\ pc' = "connect"
          /\ exc' = exc
     ELSE /\ pc' = "done"
          /\ exc' = Exception("ValueError", <<>>)
  /\ UNCHANGED <<env_api_key, next_spec, connect_attempts, connected, mcp_servers,
                 agent, hooks, session, runner_call, tool_events, printed,
                 cleanup_vars, exit_path, interrupts, turns, calls>>

\* where startup goes after the connection block of ServerSpecs[next_spec]:
\* the next block, or Agent(...), SQLiteSession(...), SimpleHooks() and the loop
AfterConnect(servers) ==
  IF next_spec < Len(ServerSpecs)
  THEN /\ next_spec' = next_spec + 1
       /\ pc' = "connect"
       /\ UNCHANGED <<agent, hooks, session>>
  ELSE /\ next_spec' = next_spec
       /\ pc' = "input"
       /\ agent' = [name |-> "Insight Agent", mcp_servers |-> servers]
       /\ session' = <<>>
       /\ hooks' = NewHooks

\* one try block: connect() succeeds and the server is appended
ConnectOk ==
  /\ pc = "connect"
  /\ connect_attempts' =
       [connect_attempts EXCEPT ![ServerSpecs[next_spec]] = @ + 1]
  /\ connected' = connected \cup {ServerSpecs[next_spec]}
  /\ mcp_servers' = Append(mcp_servers, ServerSpecs[next_spec])
  /\ AfterConnect(mcp_servers')
  /\ UNCHANGED <<env_api_key, runner_call, tool_events, printed, cleanup_vars, exc,
                 exit_path, interrupts, turns, calls>>

\* ConnectFail with one try statement around all the connections: the first
\* failure ends the attempts and the agent is created with what connected
ConnectFail_SkipsRest ==
  /\ pc = "connect"
  /\ connect_attempts' =
       [connect_attempts EXCEPT ![ServerSpecs[next_spec]] = @ + 1]
  /\ pc' = "input"
  /\ agent' = [name |-> "Insight Agent", mcp_servers |-> mcp_servers]
  /\ session' = <<>>
  /\ hooks' = NewHooks
  /\ UNCHANGED <<env_api_key, next_spec, connected, mcp_servers, runner_call,
                 tool_events, printed, cleanup_vars, exc, exit_path, interrupts,
                 turns, calls>>

\* ConnectFail without the except clause: the failure leaves run_chat
ConnectFail_Raises ==
  /\ pc = "connect"
  /\ connect_attempts' =
       [connect_attempts EXCEPT ![ServerSpecs[next_spec]] = @ + 1]
  /\ pc' = "done"
  /\ exc' = Exception("Exception", <<>>)
  /\ UNCHANGED <<env_api_key, next_spec, connected, mcp_servers, agent, hooks,
                 session, runner_call, tool_events, printed, cleanup_vars, exit_path,
                 interrupts, turns, calls>>

\* one try block: connect() raises an Exception, which is logged as a warning
ConnectFail ==
  /\ pc = "connect"
  /\ connect_attempts' =
       [connect_attempts EXCEPT ![ServerSpecs[next_spec]] = @ + 1]
  /\ UNCHANGED <<connected, mcp_servers>>
  /\ AfterConnect(mcp_servers)
  /\ UNCHANGED <<env_api_key, runner_call, tool_events, printed, cleanup_vars, exc,
                 exit_path, interrupts, turns, calls>>

\* an interrupt signal while connect() is awaited: neither except Exception
\* nor run_chat's try (not yet entered) handles it
ConnectInterrupt ==
  /\ pc = "connect"
  /\ connect_attempts' =
       [connect_attempts EXCEPT ![ServerSpecs[next_spec]] = @ + 1]
  /\ \E class \in {"KeyboardInterrupt", "CancelledError"} :
       exc' = Exception(class, <<>>)
  /\ interrupts' = interrupts \cup {"startup"}
  /\ pc' = "done"
  /\ UNCHANGED <<env_api_key, next_spec, connected, mcp_servers, agent, hooks,
                 session, runner_call, tool_events, printed, cleanup_vars, exit_path,
                 turns, calls>>


(***************************************************************************)
(* The model-runner and the session store (agents.Runner and               *)
(* agents.memory.SQLiteSession), by their contracts.                       *)
(***************************************************************************)
RoleUser ==
  <<"u","s","e","r">>
RoleAssistant ==
  <<"a","s","s","i","s","t","a","n","t">>
ReprRole ==
  <<"{","'","r","o","l","e","'",":"," ","'">>
ReprContent ==
  <<"'",","," ","'","c","o","n","t","e","n","t","'",":"," ","'">>
ReprClose ==
  <<"'","}">>

\* a session item: a dict with a role and a content
Item(role, content) == [role |-> role, content |-> content]

\* str(item)
ItemStr(item) == ReprRole \o item.role \o ReprContent \o item.content \o ReprClose

\* item.get('type', item.get('role', 'unknown')): the items carry no 'type'
ItemTag(item) == item.role

\* what a successful Runner.run appends to the session: an item for the input
\* and an item for the answer, their content summarised by the item's ordinal
RunnerAppends(items, input, final_output) ==
  items \o <<Item(RoleUser, IntStr(Len(items) + 1)),
             Item(RoleAssistant, IntStr(Len(items) + 2))>>

(***************************************************************************)
(* run_chat: the loop.                                                     *)
(***************************************************************************)
\* the lines of error_context, for recent_errors[i..]
RECURSIVE ErrorLines(_, _)
ErrorLines(recent_errors, i) ==
  IF i > Len(recent_errors) THEN <<>>
  ELSE DigitOf(i) \o NoteTool \o recent_errors[i].tool \o NoteError
         \o Take(recent_errors[i].error, NoteErrorLen) \o NoteEllipsis
         \o ErrorLines(recent_errors, i + 1)

\* Enrich without the test of hooks.tool_errors
Enrich_IgnoresHistory(user_input, h) ==
  IF \/ Contains(NeedleError, Lower(user_input))
     \/ Contains(NeedleToolCall, Lower(user_input))
  THEN user_input \o NoteHeader
         \o ErrorLines(LastN(h.tool_errors, RecentErrors), 1) \o NoteFooter
  ELSE user_input

\* Enrich without the slice [-3:]: every record of tool_errors is listed
Enrich_AllErrors(user_input, h) ==
  IF /\ \/ Contains(NeedleError, Lower(user_input))
        \/ Contains(NeedleToolCall, Lower(user_input))
     /\ h.tool_errors # <<>>
  THEN user_input \o NoteHeader \o ErrorLines(h.tool_errors, 1) \o NoteFooter
  ELSE user_input

\* enhanced_input for user_input, given the hooks object
Enrich(user_input, h) ==
  IF /\ \/ Contains(NeedleError, Lower(user_input))
        \/ Contains(NeedleToolCall, Lower(user_input))
     /\ h.tool_errors # <<>>
  THEN user_input \o NoteHeader
         \o ErrorLines(LastN(h.tool_errors, RecentErrors), 1) \o NoteFooter
  ELSE user_input

\* user_input.lower() in ['quit', 'exit', 'bye']
IsQuit(user_input) == Lower(user_input) \in {CmdQuit, CmdExit, CmdBye}

\* user_input.lower() == "debug session"
IsDebug(user_input) == Lower(user_input) = CmdDebug

\* Command without the strip() of the line
Command_NoStrip(line) ==
  LET user_input == line
  IN  IF user_input = <<>> THEN "empty"
      ELSE IF IsDebug(user_input) THEN "debug"
      ELSE IF IsQuit(user_input) THEN "quit"
      ELSE "turn"

\* the branch of the loop body a line read by input() takes
Command(line) ==
  LET user_input == Strip(line)
  IN  IF user_input = <<>> THEN "empty"
      ELSE IF IsDebug(user_input) THEN "debug"
      ELSE IF IsQuit(user_input) THEN "quit"
      ELSE "turn"

\* the lines of Inputs by the branch they take
EmptyLines == {line \in Inputs : Command(line) = "empty"}
DebugCommands == {line \in Inputs : Command(line) = "debug"}
QuitCommands == {line \in Inputs : Command(line) = "quit"}
TurnLines == {line \in Inputs : Command(line) = "turn"}

\* DebugLines with items[:5] for items[-5:]
DebugLines_First5(items) ==
  <<[kind |-> "session_count", count |-> Len(items)]>> \o
  [i \in 1..Len(Take(items, DebugItems)) |->
     [kind |-> "session_item", index |-> i,
      tag |-> ItemTag(Take(items, DebugItems)[i]),
      text |-> Take(ItemStr(Take(items, DebugItems)[i]), DebugItemLen)]]

\* the lines "debug session" prints for the items of the session
DebugLines(items) ==
  <<[kind |-> "session_count", count |-> Len(items)]>> \o
  [i \in 1..Len(LastN(items, DebugItems)) |->
     [kind |-> "session_item", index |-> i,
      tag |-> ItemTag(LastN(items, DebugItems)[i]),
      text |-> Take(ItemStr(LastN(items, DebugItems)[i]), DebugItemLen)]]

\* leaving the try statement: the finally block starts
EnterFinally(path) ==
  /\ pc' = "cleanup"
  /\ next_cleanup' = 1
  /\ exit_path' = path
  /\ UNCHANGED <<cleanup_calls, cleanup_warned>>

\* `if not user_input: continue`
EmptyInput ==
  /\ pc = "input"
  /\ EmptyLines # {}
  /\ printed' = <<>>
  /\ UNCHANGED <<startup_vars, hooks, session, runner_call, tool_events, pc,
                 cleanup_vars, exc, exit_path, interrupts, turns, calls>>

\* "debug session": get_items() returns and the last items are printed
DebugSession ==
  /\ pc = "input"
  /\ DebugCommands # {}
  /\ printed' = DebugLines(session)
  /\ UNCHANGED <<startup_vars, hooks, session, runner_call, tool_events, pc,
                 cleanup_vars, exc, exit_path, interrupts, turns, calls>>

\* "debug session": get_items() raises; the call is outside the inner try, so
\* the exception leaves the loop through the finally block
DebugSessionFail ==
  /\ pc = "input"
  /\ DebugCommands # {}
  /\ printed' = <<>>
  /\ exc' = Exception("Exception", <<>>)
  /\ EnterFinally("session_failure")
  /\ UNCHANGED <<startup_vars, hooks, session, runner_call, tool_events, interrupts,
                 turns, calls>>

\* "debug session": an interrupt signal while get_items() is awaited
DebugSessionInterrupt ==
  /\ pc = "input"
  /\ DebugCommands # {}
  /\ \E class \in {"KeyboardInterrupt", "CancelledError"} :
       IF class = "KeyboardInterrupt"
       THEN /\ printed' = <<[kind |-> "goodbye"]>>
            /\ exc' = exc
       ELSE /\ printed' = <<>>
            /\ exc' = Exception(class, <<>>)
  /\ interrupts' = interrupts \cup {"session"}
  /\ EnterFinally("interrupt_session")
  /\ UNCHANGED <<startup_vars, hooks, session, runner_call, tool_events, turns,
                 calls>>

\* 'quit', 'exit' or 'bye': break
Quit ==
  /\ pc = "input"
  /\ QuitCommands # {}
  /\ printed' = <<[kind |-> "goodbye"]>>
  /\ EnterFinally("quit")
  /\ UNCHANGED <<startup_vars, hooks, session, runner_call, tool_events, exc,
                 interrupts, turns, calls>>

\* StartTurn handing user_input to Runner.run instead of enhanced_input
StartTurn_RawInput ==
  /\ pc = "input"
  /\ turns < MaxTurns
  /\ \E line \in TurnLines :
       /\ hooks' = ResetTurn(hooks)
       /\ runner_call' =
            [agent |-> agent, input |-> Strip(line),
             session |-> "chat_session", hooks |-> "hooks",
             max_turns |-> RunnerMaxTurns]
  /\ printed' = <<[kind |-> "thinking"]>>
  /\ tool_events' = <<>>
  /\ turns' = turns + 1
  /\ pc' = "running"
  /\ UNCHANGED <<startup_vars, session, cleanup_vars, exc, exit_path, interrupts,
                 calls>>

\* any other line: reset the last tool error, enrich the input, call Runner.run
StartTurn ==
  /\ pc = "input"
  /\ turns < MaxTurns
  /\ \E line \in TurnLines :
       /\ hooks' = ResetTurn(hooks)
       /\ runner_call' =
            [agent |-> agent, input |-> Enrich(Strip(line), hooks'),
             session |-> "chat_session", hooks |-> "hooks",
             max_turns |-> RunnerMaxTurns]
  /\ printed' = <<[kind |-> "thinking"]>>
  /\ tool_events' = <<>>
  /\ turns' = turns + 1
  /\ pc' = "running"
  /\ UNCHANGED <<startup_vars, session, cleanup_vars, exc, exit_path, interrupts,
                 calls>>

\* input() raises KeyboardInterrupt: except KeyboardInterrupt, then finally
InputInterrupt ==
  /\ pc = "input"
  /\ printed' = <<[kind |-> "goodbye"]>>
  /\ interrupts' = interrupts \cup {"input"}
  /\ EnterFinally("interrupt_input")
  /\ UNCHANGED <<startup_vars, hooks, session, runner_call, tool_events, exc, turns,
                 calls>>

\* input() raises an Exception (EOFError at the end of the input): no handler
\* of the loop catches it, it leaves through the finally block
InputFailure ==
  /\ pc = "input"
  /\ printed' = <<>>
  /\ exc' = Exception("EOFError", <<>>)
  /\ EnterFinally("input_failure")
  /\ UNCHANGED <<startup_vars, hooks, session, runner_call, tool_events, interrupts,
                 turns, calls>>

\* the runner performs a tool call and reports its end to the hooks
ToolEnd ==
  /\ pc = "running"
  /\ calls < MaxToolCalls
  /\ \E call \in ToolCalls :
       /\ hooks' = OnToolEnd(hooks, call.tool, call.result)
       /\ tool_events' = Append(tool_events, call)
  /\ calls' = calls + 1
  /\ UNCHANGED <<startup_vars, session, runner_call, printed, pc, cleanup_vars, exc,
                 exit_path, interrupts, turns>>

\* WarningLines with the warning left out
WarningLines_Silent(h) == <<>>

\* the warning printed when hooks.last_tool_error is set
WarningLines(h) ==
  IF Truthy(h.last_tool_error)
  THEN <<[kind |-> "tool_warning", tool |-> h.last_tool_error.tool,
          text |-> Take(h.last_tool_error.error, WarningLen)]>>
  ELSE <<>>

\* what the iteration prints after Runner.run returned result
ReturnLines(h, final_output) ==
  WarningLines(h) \o <<[kind |-> "agent", text |-> final_output]>>

\* Runner.run returns: the warning, if any, then the final output
RunnerReturn ==
  /\ pc = "running"
  /\ \E final_output \in {OutAnswer} :
       /\ printed' = printed \o ReturnLines(hooks, final_output)
       /\ session' = RunnerAppends(session, runner_call.input, final_output)
  /\ runner_call' = None
  /\ tool_events' = <<>>
  /\ pc' = "input"
  /\ UNCHANGED <<startup_vars, hooks, cleanup_vars, exc, exit_path, interrupts, turns,
                 calls>>

\* FailureLines looking for the marker in any letter case
FailureLines_AnyCase(text) ==
  IF ~Contains(Lower(McpMarker), Lower(text))
  THEN <<[kind |-> "system_error", text |-> text]>>
  ELSE <<[kind |-> "error", text |-> text], [kind |-> "should_have_handled"]>>

\* what the except Exception branch prints for the failure text
FailureLines(text) ==
  IF ~Contains(McpMarker, text)
  THEN <<[kind |-> "system_error", text |-> text]>>
  ELSE <<[kind |-> "error", text |-> text], [kind |-> "should_have_handled"]>>

\* RunnerRaise calling Runner.run again after the failure was printed
RunnerRaise_Retries ==
  /\ pc = "running"
  /\ \E text \in RunnerFailures :
       printed' = <<[kind |-> "thinking"]>> \o FailureLines(text)
  /\ UNCHANGED <<startup_vars, hooks, session, runner_call, tool_events, pc,
                 cleanup_vars, exc, exit_path, interrupts, turns, calls>>

\* Runner.run raises an Exception: it is printed and the loop goes on
RunnerRaise ==
  /\ pc = "running"
  /\ \E text \in RunnerFailures :
       printed' = printed \o FailureLines(text)
  /\ runner_call' = None
  /\ tool_events' = <<>>
  /\ pc' = "input"
  /\ UNCHANGED <<startup_vars, hooks, session, cleanup_vars, exc, exit_path,
                 interrupts, turns, calls>>

\* RunnerInterrupt with the cleanup placed in the KeyboardInterrupt handler
\* instead of a finally block: a CancelledError leaves run_chat without it
RunnerInterrupt_NoFinally ==
  /\ pc = "running"
  /\ \E class \in {"KeyboardInterrupt", "CancelledError"} :
       IF class = "KeyboardInterrupt"
       THEN /\ printed' = printed \o <<[kind |-> "goodbye"]>>
            /\ exc' = exc
            /\ pc' = "cleanup"
       ELSE /\ printed' = printed
            /\ exc' = Exception(class, <<>>)
            /\ pc' = "done"
  /\ runner_call' = None
  /\ tool_events' = <<>>
  /\ interrupts' = interrupts \cup {"run"}
  /\ next_cleanup' = 1
  /\ exit_path' = "interrupt_run"
  /\ UNCHANGED <<startup_vars, hooks, session, cleanup_calls, cleanup_warned, turns,
                 calls>>

\* an interrupt signal while Runner.run is awaited: KeyboardInterrupt is caught
\* by the outer handler, CancelledError by none; both pass the finally block
RunnerInterrupt ==
  /\ pc = "running"
  /\ \E class \in {"KeyboardInterrupt", "CancelledError"} :
       IF class = "KeyboardInterrupt"
       THEN /\ printed' = printed \o <<[kind |-> "goodbye"]>>
            /\ exc' = exc
       ELSE /\ printed' = printed
            /\ exc' = Exception(class, <<>>)
  /\ runner_call' = None
  /\ tool_events' = <<>>
  /\ interrupts' = interrupts \cup {"run"}
  /\ EnterFinally("interrupt_run")
  /\ UNCHANGED <<startup_vars, hooks, session, turns, calls>>

(***************************************************************************)
(* run_chat: the finally block.                                            *)
(***************************************************************************)
\* the for loop goes on to the next server
NextServer == next_cleanup' = next_cleanup + 1

\* server.cleanup() returns
CleanupOk ==
  /\ pc = "cleanup"
  /\ next_cleanup <= Len(mcp_servers)
  /\ cleanup_calls' = [cleanup_calls EXCEPT ![mcp_servers[next_cleanup]] = @ + 1]
  /\ NextServer
  /\ UNCHANGED <<startup_vars, hooks, session, runner_call, tool_events, printed, pc,
                 cleanup_warned, exc, exit_path, interrupts, turns, calls>>

\* CleanupFail without the except clause: the failure leaves the finally block
CleanupFail_Propagates ==
  /\ pc = "cleanup"
  /\ next_cleanup <= Len(mcp_servers)
  /\ cleanup_calls' = [cleanup_calls EXCEPT ![mcp_servers[next_cleanup]] = @ + 1]
  /\ exc' = Exception("Exception", <<>>)
  /\ pc' = "done"
  /\ UNCHANGED <<startup_vars, hooks, session, runner_call, tool_events, printed,
                 next_cleanup, cleanup_warned, exit_path, interrupts, turns, calls>>

\* server.cleanup() raises an Exception: it is logged and the loop goes on
CleanupFail ==
  /\ pc = "cleanup"
  /\ next_cleanup <= Len(mcp_servers)
  /\ cleanup_calls' = [cleanup_calls EXCEPT ![mcp_servers[next_cleanup]] = @ + 1]
  /\ cleanup_warned' = cleanup_warned \cup {mcp_servers[next_cleanup]}
  /\ NextServer
  /\ UNCHANGED <<startup_vars, hooks, session, runner_call, tool_events, printed, pc,
                 exc, exit_path, interrupts, turns, calls>>

\* an interrupt signal while server.cleanup() is awaited: except Exception does
\* not catch it, it leaves the finally block and run_chat
CleanupInterrupt ==
  /\ pc = "cleanup"
  /\ next_cleanup <= Len(mcp_servers)
  /\ cleanup_calls' = [cleanup_calls EXCEPT ![mcp_servers[next_cleanup]] = @ + 1]
  /\ \E class \in {"KeyboardInterrupt", "CancelledError"} :
       exc' = Exception(class, <<>>)
  /\ interrupts' = interrupts \cup {"cleanup"}
  /\ pc' = "done"
  /\ UNCHANGED <<startup_vars, hooks, session, runner_call, tool_events, printed,
                 next_cleanup, cleanup_warned, exit_path, turns, calls>>

\* the for loop is exhausted: run_chat returns, or the pending exception leaves it
CleanupEnd ==
  /\ pc = "cleanup"
  /\ next_cleanup > Len(mcp_servers)
  /\ pc' = "done"
  /\ UNCHANGED <<startup_vars, hooks, session, runner_call, tool_events, printed,
                 cleanup_vars, exc, exit_path, interrupts, turns, calls>>

Next ==
  \/ CheckApiKey
  \/ ConnectOk
  \/ ConnectFail
  \/ ConnectInterrupt
  \/ EmptyInput
  \/ DebugSession
  \/ DebugSessionFail
  \/ DebugSessionInterrupt
  \/ Quit
  \/ StartTurn
  \/ InputInterrupt
  \/ InputFailure
  \/ ToolEnd
  \/ RunnerReturn
  \/ RunnerRaise
  \/ RunnerInterrupt
  \/ CleanupOk
  \/ CleanupFail
  \/ CleanupInterrupt
  \/ CleanupEnd

Spec == Init /\ [][Next]_vars

\* the awaited Runner.run call comes to an end: it returns, raises or is
\* interrupted
RunnerEnds == RunnerReturn \/ RunnerRaise \/ RunnerInterrupt

\* the finally block goes on: the awaited cleanup() returns, raises or is
\* interrupted, or the for loop is exhausted
CleanupGoesOn == CleanupOk \/ CleanupFail \/ CleanupInterrupt \/ CleanupEnd

\* the program under the assumption that no awaited call hangs
FairSpec == Spec /\ WF_vars(RunnerEnds) /\ WF_vars(CleanupGoesOn)

(***************************************************************************)
(* The loop entered directly: run_chat waits at input() with a tracker and *)
(* a session that earlier turns have filled.                               *)
(***************************************************************************)
\* the error records on_tool_end can append
ErrorRecords ==
  {ErrorInfo(call.tool, Str(call.result)) :
     call \in {c \in ToolCalls : IsToolError(Str(c.result))}}

\* the values of tool_errors of the given length
RECURSIVE HistoriesOfLen(_)
HistoriesOfLen(n) ==
  IF n = 0 THEN {<<>>}
  ELSE {Append(h, r) : h \in HistoriesOfLen(n - 1), r \in ErrorRecords}

\* the values of tool_errors after at most MaxHistory recorded errors
Histories == UNION {HistoriesOfLen(n) : n \in 0..MaxHistory}

\* the session after k turns in which Runner.run returned
RECURSIVE SessionAfter(_)
SessionAfter(k) ==
  IF k = 0 THEN <<>> ELSE RunnerAppends(SessionAfter(k - 1), <<>>, OutAnswer)

\* run_chat at input(), both servers connected; last_tool_error is None or
\* the latest record, as on_tool_end and the reset leave it
LoopInit ==
  /\ pc = "input"
  /\ env_api_key = TRUE
  /\ next_spec = Len(ServerSpecs)
  /\ connect_attempts = [s \in Servers |-> 1]
  /\ connected = Servers
  /\ mcp_servers = ServerSpecs
  /\ agent = [name |-> "Insight Agent", mcp_servers |-> ServerSpecs]
  /\ \E h \in Histories, slot_set \in BOOLEAN :
       hooks = [last_tool_error |->
                  IF slot_set /\ h # <<>> THEN h[Len(h)] ELSE None,
                tool_errors |-> h]
  /\ \E k \in 0..MaxPriorTurns : session = SessionAfter(k)
  /\ runner_call = None
  /\ tool_events = <<>>
  /\ printed = <<>>
  /\ next_cleanup = 1
  /\ cleanup_calls = [s \in Servers |-> 0]
  /\ cleanup_warned = {}
  /\ exc = None
  /\ exit_path = "none"
  /\ interrupts = {}
  /\ turns = 0
  /\ calls = 0

\* the iterations of the loop that come back to input(), without tool calls
LoopNext ==
  \/ EmptyInput
  \/ DebugSession
  \/ StartTurn
  \/ RunnerReturn
  \/ RunnerRaise

LoopSpec == LoopInit /\ [][LoopNext]_vars

(***************************************************************************)
(* Properties.                                                             *)
(***************************************************************************)
\* s is an element of the list mcp_servers
InList(s) == \E k \in 1..Len(mcp_servers) : mcp_servers[k] = s

\* run_chat has ended and no interrupt signal arrived during the finally block
ShutdownFinished == pc = "done" /\ exit_path # "none" /\ "cleanup" \notin interrupts

\* C1: when the loop was left by a quit command, by an interrupt raised in
\* input() or by an interrupt while Runner.run was awaited, and the shutdown
\* ran undisturbed, cleanup() was called exactly once on each server of
\* mcp_servers and never on another one; no server is ever cleaned twice.
C1_CleanupOncePerServer ==
  /\ \A s \in Servers : cleanup_calls[s] <= 1
  /\ (ShutdownFinished /\ exit_path \in {"quit", "interrupt_input", "interrupt_run"})
       => \A s \in Servers : cleanup_calls[s] = IF InList(s) THEN 1 ELSE 0

\* C1: Runner.run was interrupted with both servers connected, and both were
\* cleaned up once
C1_Witness ==
  /\ ShutdownFinished
  /\ exit_path = "interrupt_run"
  /\ exc = Exception("CancelledError", <<>>)
  /\ Len(mcp_servers) = 2
  /\ \A s \in Servers : cleanup_calls[s] = 1

\* C2: whenever the program has ended, every server whose connect() returned
\* has had exactly one cleanup() call.
C2_ConnectedServersCleanedOnce ==
  pc = "done" => \A s \in connected : cleanup_calls[s] = 1

\* C3: the chat loop is left only by a quit command or an interrupt signal;
\* no failure of input() or of the session store leaves it.
C3_OnlyQuitOrInterruptEndsLoop ==
  exit_path \in
    {"none", "quit", "interrupt_input", "interrupt_run", "interrupt_session"}


\* the rule of the tracker: the lower-cased rendered result contains "error"
\* or "database configuration not set"
RendersAsError(result) ==
  \/ Contains(<<"e","r","r","o","r">>, Lower(Str(result)))
  \/ Contains(NeedleDbConfig, Lower(Str(result)))

\* the tool calls of ToolCalls whose result renders as an error
ErrorCalls == {call \in ToolCalls : RendersAsError(call.result)}

\* the tool calls of the Runner.run call in flight that render as an error
ErrorEvents == {k \in 1..Len(tool_events) : tool_events[k] \in ErrorCalls}

\* the step in which the runner reports the end of a tool call
ToolEndStep == Len(tool_events') = Len(tool_events) + 1

\* C4: on_tool_end appends exactly one record to tool_errors, leaving the
\* earlier records as they were, when the lower-cased rendered result contains
\* "error" or "database configuration not set", and leaves tool_errors
\* unchanged for every other result.
C4_OnToolEndAppendsIffError ==
  [][ToolEndStep =>
       IF tool_events'[Len(tool_events')] \in ErrorCalls
       THEN /\ Len(hooks'.tool_errors) = Len(hooks.tool_errors) + 1
            /\ SubSeq(hooks'.tool_errors, 1, Len(hooks.tool_errors)) = hooks.tool_errors
       ELSE hooks'.tool_errors = hooks.tool_errors]_vars

\* C4: in one Runner.run call a result was recorded and another one was not
C4_Witness ==
  /\ pc = "running"
  /\ Len(tool_events) = 2
  /\ Cardinality(ErrorEvents) = 1
  /\ Len(hooks.tool_errors) = 1

\* C5: last_tool_error is None or is the last record of tool_errors.
C5_LastErrorIsLatestRecord ==
  \/ hooks.last_tool_error = None
  \/ /\ hooks.tool_errors # <<>>
     /\ hooks.last_tool_error = hooks.tool_errors[Len(hooks.tool_errors)]

\* C5: two different errors were recorded in one turn and the slot holds the
\* second one
C5_Witness ==
  /\ pc = "running"
  /\ Len(tool_events) = 2
  /\ Len(hooks.tool_errors) = 2
  /\ hooks.tool_errors[1] # hooks.tool_errors[2]
  /\ hooks.last_tool_error = hooks.tool_errors[2]

\* the positions of the lines of the given kind in a sequence of printed lines
LinesOfKind(lines, kind) == {k \in 1..Len(lines) : lines[k].kind = kind}

\* C6: when Runner.run returns, the final output is printed, once and last; a
\* tool warning is printed iff a tool result of this Runner.run call rendered
\* as an error, it names the tool of the last such result and it stands before
\* the final output.
C6_WarningIffErrorThisTurn ==
  [][RunnerReturn =>
       /\ Cardinality(LinesOfKind(printed', "agent")) = 1
       /\ printed'[Len(printed')].kind = "agent"
       /\ printed'[Len(printed')].text \in {OutAnswer}
       /\ LinesOfKind(printed', "tool_warning") # {} <=> ErrorEvents # {}
       /\ \A k \in LinesOfKind(printed', "tool_warning") :
            /\ k < Len(printed')
            /\ \E e \in ErrorEvents :
                 /\ \A later \in ErrorEvents : later <= e
                 /\ printed'[k].tool = tool_events[e].tool]_vars

\* C6: the second turn ran without a tool error after a turn that recorded
\* one, and printed the final output without a warning
C6_Witness ==
  /\ pc = "input"
  /\ turns = 2
  /\ hooks.tool_errors # <<>>
  /\ hooks.last_tool_error = None
  /\ LinesOfKind(printed, "agent") # {}
  /\ LinesOfKind(printed, "tool_warning") = {}

\* the lines a step appended to printed
NewLines == SubSeq(printed', Len(printed) + 1, Len(printed'))

\* C7: when Runner.run raises a failure the loop goes on with the next input
\* and nothing propagates; the failure is shown as a system error exactly when
\* its text does not contain "MCP error", and otherwise as an error followed by
\* the notice that the agent should have handled it.
C7_RunnerFailureDisplayed ==
  [][RunnerRaise =>
       /\ pc' = "input"
       /\ exc' = None
       /\ exit_path' = "none"
       /\ NewLines # <<>>
       /\ NewLines[1].text \in RunnerFailures
       /\ IF Contains(<<"M","C","P"," ","e","r","r","o","r">>, NewLines[1].text)
          THEN /\ Len(NewLines) = 2
               /\ NewLines[1].kind = "error"
               /\ NewLines[2].kind = "should_have_handled"
          ELSE /\ Len(NewLines) = 1
               /\ NewLines[1].kind = "system_error"]_vars

\* C7: a failure whose text holds the marker in lower case only was shown as a
\* system error and the loop waits for input
C7_Witness ==
  /\ pc = "input"
  /\ exit_path = "none"
  /\ \E k \in LinesOfKind(printed, "system_error") : printed[k].text = ExcMcpLower


\* create_agent_and_servers has returned
StartupReturned == agent # None

\* C8: no server gets a second connect() call, and when startup returns every
\* server of ServerSpecs has had exactly one connect() call, whatever the
\* outcome of the calls before it, and the list handed to the agent and
\* returned is the servers whose connect() returned, in the order of
\* ServerSpecs.
C8_OneAttemptEachActiveInOrder ==
  /\ \A s \in Servers : connect_attempts[s] <= 1
  /\ StartupReturned =>
       /\ \A s \in Servers : connect_attempts[s] = 1
       /\ mcp_servers = SelectSeq(ServerSpecs, LAMBDA s : s \in connected)
       /\ agent.mcp_servers = mcp_servers

\* C8: the first server failed to connect, the second one connected, and the
\* list holds the second one alone
C8_Witness ==
  /\ StartupReturned
  /\ connected = {ServerSpecs[2]}
  /\ mcp_servers = <<ServerSpecs[2]>>
  /\ connect_attempts[ServerSpecs[1]] = 1

\* startup has ended without returning and without an interrupt signal
StartupFailed == pc = "done" /\ ~StartupReturned /\ interrupts = {}

\* C9 as claimed: startup never ends by raising a failure, whatever the
\* environment and the outcomes of the connections.
C9_StartupNeverFails == ~StartupFailed

\* C9 as amended: startup raises only when OPENAI_API_KEY is missing or empty,
\* a ValueError raised before any connect() call; with the key set and no
\* interrupt signal it returns the agent and the list of the connected
\* servers, whatever the outcomes of the connections.
C9_StartupFailsOnlyWithoutApiKey ==
  /\ StartupFailed =>
       /\ ~env_api_key
       /\ exc = Exception("ValueError", <<>>)
       /\ \A s \in Servers : connect_attempts[s] = 0
  /\ (~env_api_key /\ pc # "start") => StartupFailed
  /\ (env_api_key /\ pc \notin {"start", "connect"} /\ "startup" \notin interrupts)
       => /\ StartupReturned
          /\ agent.mcp_servers = mcp_servers
          /\ \A k \in 1..Len(mcp_servers) : mcp_servers[k] \in connected

\* C9: every connection failed and startup returned the agent with an empty
\* list
C9_Witness ==
  /\ StartupReturned
  /\ env_api_key
  /\ \A s \in Servers : connect_attempts[s] = 1
  /\ connected = {}
  /\ agent.mcp_servers = <<>>

\* C10: in the finally block every server before the position of the loop has
\* had its cleanup() call, whether the calls before it failed or not; a failed
\* call is logged and raises nothing: a run that entered the block without a
\* pending exception ends without one.
C10_CleanupFailureContained ==
  /\ pc = "cleanup" =>
       \A k \in 1..Len(mcp_servers) :
         k < next_cleanup => cleanup_calls[mcp_servers[k]] = 1
  /\ ShutdownFinished =>
       /\ \A k \in 1..Len(mcp_servers) : cleanup_calls[mcp_servers[k]] = 1
       /\ cleanup_warned \subseteq {mcp_servers[k] : k \in 1..Len(mcp_servers)}
       /\ exit_path \in {"quit", "interrupt_input"} => exc = None

\* C10: the cleanup of the first server failed and was logged, the second
\* server was cleaned up, and run_chat returned normally
C10_Witness ==
  /\ ShutdownFinished
  /\ exit_path = "quit"
  /\ Len(mcp_servers) = 2
  /\ cleanup_warned = {mcp_servers[1]}
  /\ cleanup_calls[mcp_servers[2]] = 1
  /\ exc = None


\* the texts that start a turn: the stripped lines that are neither empty nor
\* a command
TurnTexts == {Strip(line) : line \in TurnLines}

\* text is what the user typed for the Runner.run call being made
IsTextOf(text, input) ==
  /\ Len(input) >= Len(text)
  /\ SubSeq(input, 1, Len(text)) = text

\* the lower-cased text contains "error" or "tool call"
AsksAboutErrors(text) ==
  \/ Contains(<<"e","r","r","o","r">>, Lower(text))
  \/ Contains(<<"t","o","o","l"," ","c","a","l","l">>, Lower(text))

\* C11: the text handed to Runner.run is the user's text unchanged whenever
\* tool_errors is empty, and whenever the lower-cased text contains neither
\* "error" nor "tool call"; it differs from the user's text only when the text
\* contains one of them and tool_errors is non-empty, and then it is the
\* user's text followed by a note.
C11_EnrichIdentityUnlessTriggered ==
  [][StartTurn =>
       /\ \E text \in TurnTexts : IsTextOf(text, runner_call'.input)
       /\ \A text \in TurnTexts :
            IsTextOf(text, runner_call'.input) =>
              /\ (hooks.tool_errors = <<>> \/ ~AsksAboutErrors(text))
                   => runner_call'.input = text
              /\ runner_call'.input # text
                   => /\ AsksAboutErrors(text)
                      /\ hooks.tool_errors # <<>>
                      /\ IsTextOf(text \o NoteHeader, runner_call'.input)]_vars

\* C11: with four records in tool_errors a text that asks for nothing about
\* errors is handed to Runner.run as it was typed
C11_Witness ==
  /\ pc = "running"
  /\ Len(hooks.tool_errors) = 4
  /\ runner_call.input = <<"h","i">>

\* one line of the note: the position, the tool and the first 200 characters
\* of the error
NoteLine(i, record) ==
  DigitOf(i) \o NoteTool \o record.tool \o NoteError
    \o SubSeq(record.error, 1, IF Len(record.error) > 200 THEN 200 ELSE Len(record.error))
    \o NoteEllipsis

\* the note for at most three records, in the order given
NoteOf(recent) ==
  NoteHeader
    \o (IF Len(recent) >= 1 THEN NoteLine(1, recent[1]) ELSE <<>>)
    \o (IF Len(recent) >= 2 THEN NoteLine(2, recent[2]) ELSE <<>>)
    \o (IF Len(recent) >= 3 THEN NoteLine(3, recent[3]) ELSE <<>>)
    \o NoteFooter

\* the last three records of a history, all of them when there are fewer
MostRecent3(h) ==
  IF Len(h) > 3 THEN <<h[Len(h) - 2], h[Len(h) - 1], h[Len(h)]>> ELSE h

\* C12: when the text asks about errors and tool_errors is non-empty, the
\* text handed to Runner.run is the user's text followed by the note of the
\* three most recent records (all of them when there are fewer), oldest
\* first; and with three or more records the enrichment of the same text over
\* any history that ends with the same three records is the same text.
C12_EnrichListsThreeMostRecent ==
  [][StartTurn =>
       \A text \in TurnTexts :
         (/\ IsTextOf(text, runner_call'.input)
          /\ AsksAboutErrors(text)
          /\ hooks.tool_errors # <<>>)
         => /\ runner_call'.input = text \o NoteOf(MostRecent3(hooks.tool_errors))
            /\ Len(hooks.tool_errors) >= 3 =>
                 \A older \in Histories :
                   Enrich(text, [hooks EXCEPT !.tool_errors =
                                   older \o MostRecent3(hooks.tool_errors)])
                     = runner_call'.input]_vars

\* C12: tool_errors holds four records, the oldest unlike the second, and the
\* note handed to Runner.run lists the second, third and fourth
C12_Witness ==
  /\ pc = "running"
  /\ Len(hooks.tool_errors) = 4
  /\ hooks.tool_errors[1] # hooks.tool_errors[2]
  /\ \E text \in TurnTexts :
       runner_call.input = text \o NoteOf(SubSeq(hooks.tool_errors, 2, 4))


\* C13: whenever a Runner.run call is made, last_tool_error is None right
\* after the reset that precedes it, whatever the turns before recorded.
C13_ResetLeavesSlotEmpty ==
  [][(runner_call = None /\ runner_call' # None)
       => hooks'.last_tool_error = None]_vars

\* C13: the second turn starts after a turn that recorded an error, and the
\* slot is empty before any tool call of the second turn
C13_Witness ==
  /\ pc = "running"
  /\ turns = 2
  /\ tool_events = <<>>
  /\ hooks.tool_errors # <<>>
  /\ hooks.last_tool_error = None

\* the line is empty or consists of whitespace
BlankLine(line) == \A i \in 1..Len(line) : line[i] \in {" ", "\t", "\n", "\r"}

\* every blank line of Inputs takes the branch of the empty input and no other
BlankLinesAreEmptyInput ==
  \A line \in Inputs :
    BlankLine(line) =>
      /\ line \in EmptyLines
      /\ line \notin (TurnLines \cup DebugCommands \cup QuitCommands)

\* C14: every empty or whitespace-only line takes the `continue` of the empty
\* input and no other branch; that iteration calls no model-runner, leaves
\* last_tool_error, tool_errors and the session as they were and goes back to
\* input(); and no Runner.run call is ever made with an empty text.
C14_EmptyInputStartsNoTurn ==
  [][/\ BlankLinesAreEmptyInput
     /\ EmptyInput =>
          /\ runner_call' = None
          /\ hooks' = hooks
          /\ session' = session
          /\ pc' = "input"
          /\ turns' = turns
          /\ exit_path' = "none"
     /\ runner_call' # None => ~BlankLine(runner_call'.input)]_vars

\* C14: an empty line was read after a turn that recorded a tool error; the
\* slot still holds the error and the loop waits for input
C14_Witness ==
  /\ pc = "input"
  /\ printed = <<>>
  /\ turns >= 1
  /\ runner_call = None
  /\ hooks.last_tool_error # None


\* the first 100 characters of str(item)
Preview(item) ==
  SubSeq(ItemStr(item), 1, IF Len(ItemStr(item)) > 100 THEN 100 ELSE Len(ItemStr(item)))

\* C15: "debug session" prints the number of items of the session and then
\* its last five items (all of them when there are fewer), oldest first and
\* numbered from 1; it calls no model-runner, leaves the session,
\* last_tool_error and tool_errors as they were and goes back to input().
C15_DebugSessionPrintsLastFive ==
  [][DebugSession =>
       LET n == Len(session)
           first == IF n > 5 THEN n - 4 ELSE 1
           shown == n - first + 1
       IN  /\ Len(printed') = shown + 1
           /\ printed'[1] = [kind |-> "session_count", count |-> n]
           /\ \A k \in 1..shown :
                /\ printed'[k + 1].kind = "session_item"
                /\ printed'[k + 1].index = k
                /\ printed'[k + 1].tag = session[first + k - 1].role
                /\ printed'[k + 1].text = Preview(session[first + k - 1])
           /\ runner_call' = None
           /\ session' = session
           /\ hooks' = hooks
           /\ pc' = "input"
           /\ turns' = turns]_vars

\* C15: the session holds six items and "debug session" printed the second
\* to the sixth
C15_Witness ==
  /\ pc = "input"
  /\ Len(session) = 6
  /\ Len(printed) = 6
  /\ printed[1].kind = "session_count"
  /\ printed[2].text = ItemStr(session[2])
  /\ printed[6].text = ItemStr(session[6])
  /\ runner_call = None


\* the step that ends a Runner.run call during which a tool result rendered
\* as an error, and goes back to input()
TurnWithErrorEnds == pc = "running" /\ pc' = "input" /\ ErrorEvents # {}

\* the last tool call of the Runner.run call in flight that rendered as an
\* error
LastErrorEvent ==
  LET errors == ErrorEvents
  IN  tool_events[CHOOSE e \in errors : \A other \in errors : other <= e]

\* C16 as claimed: whenever a tool error was recorded during a turn, a tool
\* warning has been printed when the loop is back at input(), also when
\* Runner.run ended by raising a failure.
C16_ToolErrorAlwaysSurfaced ==
  [][TurnWithErrorEnds => LinesOfKind(printed', "tool_warning") # {}]_vars

\* C16 as amended: a tool result that renders as an error leaves the turn
\* running and raises nothing; when Runner.run returns after such a result,
\* the warning for the last of them has been printed before the final output;
\* when Runner.run raises a failure after such a result, the failure alone is
\* printed, without a warning, and the error stays in last_tool_error and
\* tool_errors.
C16_ToolErrorSurfacedOnReturn ==
  [][/\ ToolEndStep => (pc' = "running" /\ exc' = exc /\ exit_path' = exit_path)
     /\ TurnWithErrorEnds =>
          LET new == NewLines
              last == LastErrorEvent
          IN  IF new[Len(new)].kind = "agent"
              THEN \E k \in LinesOfKind(new, "tool_warning") :
                     /\ k < Len(new)
                     /\ new[k].tool = last.tool
                     /\ new[k].text = Take(Str(last.result), 300)
              ELSE /\ LinesOfKind(printed', "tool_warning") = {}
                   /\ new[1].kind \in {"system_error", "error"}
                   /\ hooks' = hooks
                   /\ hooks'.last_tool_error.tool = last.tool
                   /\ hooks'.tool_errors[Len(hooks'.tool_errors)] = hooks'.last_tool_error
    ]_vars

\* C16: a tool error was recorded in a turn whose Runner.run call raised a
\* failure: the system error was printed, no warning was, and the slot still
\* holds the error
C16_Witness ==
  /\ pc = "input"
  /\ hooks.last_tool_error # None
  /\ LinesOfKind(printed, "system_error") # {}
  /\ LinesOfKind(printed, "tool_warning") = {}


\* the stripped, lower-cased line is one of the commands of the loop
IsCommandLine(line) ==
  Lower(Strip(line)) \in
    {<<"d","e","b","u","g"," ","s","e","s","s","i","o","n">>,
     <<"q","u","i","t">>, <<"e","x","i","t">>, <<"b","y","e">>}

\* the lines that start a turn are the lines that are neither blank nor a
\* command
TurnLinesAreTheOtherLines ==
  \A line \in Inputs :
    (line \in TurnLines) <=> (~BlankLine(line) /\ ~IsCommandLine(line))

\* the step in which a Runner.run call is made
RunnerCalled == runner_call' # runner_call /\ runner_call' # None

\* C17: the lines that start a turn are the lines that are neither blank nor
\* a command; a Runner.run call is in flight exactly while a turn runs, so at
\* most one at a time; each turn makes exactly one call, and the step that
\* makes it has cleared last_tool_error, has left tool_errors alone, starts
\* with no tool event, and hands over the enriched text (the note of the three
\* most recent records when the text asks about errors and there are any),
\* the agent created at startup, the one session, the one hooks object and
\* max_turns = 10.
C17_OneRunnerCallPerTurn ==
  [][/\ TurnLinesAreTheOtherLines
     /\ (runner_call' # None) <=> (pc' = "running")
     /\ (turns' # turns) <=> RunnerCalled
     /\ RunnerCalled =>
          /\ pc = "input"
          /\ runner_call = None
          /\ turns' = turns + 1
          /\ hooks'.last_tool_error = None
          /\ hooks'.tool_errors = hooks.tool_errors
          /\ tool_events' = <<>>
          /\ \E text \in TurnTexts :
               runner_call'.input =
                 IF AsksAboutErrors(text) /\ hooks.tool_errors # <<>>
                 THEN text \o NoteOf(MostRecent3(hooks.tool_errors))
                 ELSE text
          /\ runner_call'.agent = agent
          /\ agent' = agent
          /\ agent # None
          /\ runner_call'.session = "chat_session"
          /\ runner_call'.hooks = "hooks"
          /\ runner_call'.max_turns = 10]_vars

\* C17: the second turn asks about the last tool call after a turn that
\* recorded errors, and Runner.run is called with the text and the note
C17_Witness ==
  /\ pc = "running"
  /\ turns = 2
  /\ tool_events = <<>>
  /\ hooks.tool_errors # <<>>
  /\ runner_call.input =
       Strip(InAskToolCall) \o NoteOf(MostRecent3(hooks.tool_errors))
  /\ runner_call.agent = agent
  /\ runner_call.max_turns = 10


\* the record on_tool_end is to keep for a tool call: the tool, the first 500
\* characters of the rendered result, the timestamp
RecordOf(call) ==
  [tool |-> call.tool,
   error |-> SubSeq(Str(call.result), 1,
                    IF Len(Str(call.result)) > 500 THEN 500 ELSE Len(Str(call.result))),
   timestamp |-> "just now"]

\* C18: while a turn runs, the records of the tool results of this turn that
\* rendered as errors are the last records of tool_errors, one per error and
\* in the order of the calls; last_tool_error is the record of the last of
\* them, whether or not results that are no errors followed it, and is None
\* when there was none.
C18_LastErrorOfTurnWins ==
  pc = "running" =>
    LET errors == SelectSeq(tool_events, LAMBDA call : call \in ErrorCalls)
        n == Len(errors)
        history == hooks.tool_errors
    IN  /\ Len(history) >= n
        /\ \A j \in 1..n : history[Len(history) - n + j] = RecordOf(errors[j])
        /\ hooks.last_tool_error = IF n = 0 THEN None ELSE RecordOf(errors[n])

\* C18: in one turn two different results rendered as errors and a third
\* result did not; the slot holds the second error and two records were
\* appended
C18_Witness ==
  /\ pc = "running"
  /\ Len(tool_events) = 3
  /\ tool_events[1] \in ErrorCalls
  /\ tool_events[2] \in ErrorCalls
  /\ tool_events[1] # tool_events[2]
  /\ tool_events[3] \notin ErrorCalls
  /\ hooks.last_tool_error = RecordOf(tool_events[2])
  /\ hooks.tool_errors = <<RecordOf(tool_events[1]), RecordOf(tool_events[2])>>

\* C19: every step leaves the records of tool_errors where they were: the
\* value before the step is a prefix of the value after it.
C19_ErrorHistoryAppendOnly ==
  [][/\ Len(hooks'.tool_errors) >= Len(hooks.tool_errors)
     /\ SubSeq(hooks'.tool_errors, 1, Len(hooks.tool_errors)) = hooks.tool_errors]_vars

\* C19: two errors recorded in the first turn are still in tool_errors after
\* the reset of the second turn, the end of that turn and the shutdown
C19_Witness ==
  /\ pc = "done"
  /\ exit_path = "quit"
  /\ turns = 2
  /\ Len(hooks.tool_errors) = 2
  /\ hooks.last_tool_error = None
  /\ LinesOfKind(printed, "goodbye") # {}


\* C20: provided the awaited Runner.run call ends, every turn that was
\* started leads back to input() or to the finally block; and provided every
\* awaited cleanup() ends, the finally block leads to the end of run_chat.
C20_TurnAndShutdownEnd ==
  /\ (pc = "running") ~> (pc \in {"input", "cleanup"})
  /\ (pc = "cleanup") ~> (pc = "done")

\* C20: the second turn was interrupted with Ctrl-C, the cleanup of a server
\* raised, and run_chat has returned
C20_Witness ==
  /\ pc = "done"
  /\ exit_path = "interrupt_run"
  /\ turns = 2
  /\ exc = None
  /\ cleanup_warned # {}

=============================================================================
